---- MODULE Spec2Model ----
(***************************************************************************)
(* Model of the Autonomous App Builder: the Streamlit "Start Building"     *)
(* handler (streamlit_app.py) driving AppBuilderOrchestrator.build_app     *)
(* (orchestrator.py) through requirement gathering, search, scaffolding,   *)
(* code generation, linting, the test/fix loop and deployment.             *)
(*                                                                         *)
(* Every call the orchestrator makes to the outside world (an SMS, a       *)
(* subprocess, the language model, the search client, the vector store,    *)
(* the file system) is a step whose outcome the environment chooses.  A    *)
(* handler is a list of such steps executed up to the first step that      *)
(* raises; the exception then propagates as Python propagates it.          *)
(***************************************************************************)
EXTENDS Integers, Sequences, FiniteSets, TLC

\* Largest value self.max_iterations is given in a run (the default is 5).
MaxAttempts == 5

\* Largest number of results one search.run call returns.
MaxResults == 1

\* perform_search keeps results[:3].
TopK == 3

\* Largest number of resources one build hands to add_resources_to_store.
MaxResources == 2

VARIABLES
    ui,              \* what the Streamlit page shows
    pc,              \* position of build_app
    exc,             \* exception that left build_app ("none" if none)
    project_name,    \* self.project_name
    requirements,    \* self.requirements
    search_results,  \* self.search_results: completed queries and their docs
    search_queries,  \* build_app's local `search_queries`
    parsed,          \* history: how the requirements response parsed
    max_iterations,  \* self.max_iterations
    twilio_creds,    \* TWILIO_ACCOUNT_SID and TWILIO_AUTH_TOKEN are set
    twilio_client,   \* self.twilio_client (truthy once constructed)
    twilio_from,     \* self.twilio_from is set
    twilio_to,       \* self.twilio_to is set
    attempt,         \* loop variable of iterate_until_success
    success,         \* build_app's local `success`
    attempts,        \* history: outcome of every run_tests invocation
    repairs,         \* history: outcome of fix_code in every fix_errors invocation
    results,         \* run_tests' backend/frontend/ios results of the last run
    lint_results,    \* exit outcome of every lint command that was run
    deploy_results,  \* exit outcome of every deployment command that was run
    stages,          \* history: orchestrator methods build_app invoked, in order
    trace,           \* history: external calls made, in order
    store_file,      \* what the file at VECTOR_STORE_PATH holds
    add_texts_returns, \* what the library's add_texts hands back
    active,          \* the builds that use the vector store
    resources,       \* per build: the resources still to be added
    wop,             \* per build: the vectorstore.py function it is in
    wpc,             \* per build: its position in that function
    wvs,             \* per build: the local `vs`
    wnew,            \* per build: the local `new_vs`
    wexc,            \* per build: exception that left the function
    added            \* history: texts whose add_document_to_store returned

vars == <<ui, pc, exc, project_name, requirements, search_results,
          search_queries, parsed,
          max_iterations, twilio_creds, twilio_client, twilio_from, twilio_to, attempt,
          success, attempts, repairs, results, lint_results, deploy_results,
          stages, trace,
          store_file, add_texts_returns, active, resources, wop, wpc, wvs,
          wnew, wexc, added>>

storevars == <<store_file, add_texts_returns, active, resources, wop, wpc,
               wvs, wnew, wexc, added>>

----------------------------------------------------------------------------
\* Sequences of steps

Last(s) == s[Len(s)]

Range(s) == {s[i] : i \in 1..Len(s)}

Min(a, b) == IF a <= b THEN a ELSE b

\* One external call: its kind, its argument, the exit outcome of a
\* subprocess ("ok", "fail", "nolaunch"; "ok" for other kinds) and the
\* exception it raises into the caller ("none" if it returns).
Step(kind, arg, out, e) == [kind |-> kind, arg |-> arg, out |-> out, exc |-> e]

\* Index of the first step that raises, 0 if none does.
RaiseIdx(steps) ==
    IF \E i \in 1..Len(steps) : steps[i].exc # "none"
    THEN CHOOSE i \in 1..Len(steps) :
            /\ steps[i].exc # "none"
            /\ \A j \in 1..(i - 1) : steps[j].exc = "none"
    ELSE 0

\* The steps that are actually executed: up to and including the first raise.
Executed(steps) ==
    IF RaiseIdx(steps) = 0 THEN steps ELSE SubSeq(steps, 1, RaiseIdx(steps))

ExcOf(steps) ==
    IF RaiseIdx(steps) = 0 THEN "none" ELSE steps[RaiseIdx(steps)].exc

\* What the executed steps add to the trace.
Events(steps) ==
    [i \in 1..Len(Executed(steps)) |->
        [kind |-> Executed(steps)[i].kind, arg |-> Executed(steps)[i].arg]]

IsRun(s) == s.kind = "run"

\* Exit outcomes of the subprocesses that were run.
RunOutcomes(steps) ==
    [i \in 1..Len(SelectSeq(Executed(steps), IsRun)) |->
        SelectSeq(Executed(steps), IsRun)[i].out]

\* Exception raised by a failing call of each kind.
ExcFor(kind) ==
    CASE kind = "sms"    -> "TwilioRestException"
      [] kind = "model"  -> "ModelError"
      [] kind = "search" -> "SearchError"
      [] kind = "index"  -> "StoreError"
      [] OTHER           -> "OSError"

\* A call that either returns or raises.
Call(kind, arg, ok) ==
    <<Step(kind, arg, "ok", IF ok THEN "none" ELSE ExcFor(kind))>>

----------------------------------------------------------------------------
\* send_sms: a message is sent only with client, from and to all set; the
\* exception of messages.create is not caught.
send_sms(message, ok) ==
    IF twilio_client /\ twilio_from /\ twilio_to
    THEN Call("sms", message, ok)
    ELSE <<>>

\* Outcomes of a send_sms call: messages.create returns or raises; with the
\* channel unconfigured there is no call and so nothing to fail, and a
\* client built without credentials cannot send.
SmsOutcomes ==
    IF twilio_client /\ twilio_from /\ twilio_to
    THEN (IF twilio_creds THEN BOOLEAN ELSE {FALSE})
    ELSE {TRUE}

\* check=True dropped: a non-zero exit is ignored.
UncheckedExc(out) == IF out = "nolaunch" THEN "FileNotFoundError" ELSE "none"

\* subprocess.run(cmd, check=True): a non-zero exit raises
\* CalledProcessError, a launch failure raises FileNotFoundError.
CheckedExc(out) ==
    CASE out = "ok"       -> "none"
      [] out = "fail"     -> "CalledProcessError"
      [] out = "nolaunch" -> "FileNotFoundError"

checked_run(cmd, out) == <<Step("run", cmd, out, CheckedExc(out))>>

\* run_subprocess: create_subprocess_exec raises when the executable cannot
\* be launched; otherwise the result is returncode == 0.
SubprocessExc(out) == IF out = "nolaunch" THEN "FileNotFoundError" ELSE "none"

run_subprocess(cmd, out) == <<Step("run", cmd, out, SubprocessExc(out))>>

Outcomes == {"ok", "fail", "nolaunch"}

\* Exit outcomes of n commands of which the f-th (if any) ends with `out`.
\* A command after the first one that raises is never run, so its outcome
\* is immaterial.
FailAt(n, f, out) == [i \in 1..n |-> IF i = f THEN out ELSE "ok"]


\* The environment makes the f-th call of a handler fail (f = 0: none).
MarkFail(steps, f) ==
    [i \in 1..Len(steps) |->
        IF i = f THEN [steps[i] EXCEPT !.exc = ExcFor(steps[i].kind)]
        ELSE steps[i]]

\* The calls of a handler the environment may make fail first: any call or
\* none; with a client built without credentials, no call after the first
\* SMS is reached, since that SMS cannot be sent.
FailChoices(steps) ==
    LET sms == {i \in 1..Len(steps) : steps[i].kind = "sms"}
    IN IF twilio_creds \/ sms = {}
       THEN 0..Len(steps)
       ELSE 1..(CHOOSE i \in sms : \A j \in sms : i <= j)

----------------------------------------------------------------------------
\* Requirements: a Python dict with the keys the orchestrator reads.

EmptyDict ==
    [keys |-> {}, app_name |-> "", features |-> <<>>, framework |-> ""]

\* generate_requirements' fallback when the response is not JSON.
DefaultRequirements ==
    [keys |-> {"app_name", "features"}, app_name |-> "MyApp",
     features |-> <<"task_management">>, framework |-> ""]

\* Responses of the language model to the requirements prompt: text that is
\* not JSON, and JSON objects with and without app_name, features, frontend.
LLMResponses ==
    { [valid |-> FALSE, json |-> EmptyDict],
      [valid |-> TRUE,
       json |-> [keys |-> {"app_name"}, app_name |-> "TodoApp",
                 features |-> <<>>, framework |-> ""]],
      [valid |-> TRUE,
       json |-> [keys |-> {"features", "frontend"}, app_name |-> "",
                 features |-> <<"auth", "sync">>, framework |-> "Vue"]] }

\* The fallback dropped: whatever the response holds is returned.
generate_requirements_no_fallback(response) == response.json

\* MyHostedModel.generate_requirements, after the model call returned.
generate_requirements(response) ==
    IF response.valid THEN response.json ELSE DefaultRequirements

\* self.requirements.get("app_name", "NewApp")
GetAppName(d) == IF "app_name" \in d.keys THEN d.app_name ELSE "NewApp"

\* self.requirements.get("features", [])
GetFeatures(d) == IF "features" \in d.keys THEN d.features ELSE <<>>

\* self.requirements.get('frontend', {}).get('framework', 'React')
GetFramework(d) == IF "frontend" \in d.keys THEN d.framework ELSE "React"

\* generate_search_queries: one query per feature, in feature order.
generate_search_queries(d) ==
    [i \in 1..Len(GetFeatures(d)) |->
        [feature |-> GetFeatures(d)[i], frontend |-> GetFramework(d)]]

----------------------------------------------------------------------------
\* The vector store file and the builds that share it

\* Two builds (two Streamlit sessions) that may use the store at once.
Builds == {"a", "b"}

\* What the store file holds, or what a local variable is bound to.
Absent == [kind |-> "absent", texts |-> <<>>]
Truncated == [kind |-> "empty", texts |-> <<>>]
FAISS(texts) == [kind |-> "store", texts |-> texts]
IdList(texts) == [kind |-> "ids", texts |-> texts]
Unbound == [kind |-> "none", texts |-> <<>>]

\* FAISS.from_texts(["initial text"], embeddings)
InitialText == <<"initial text", 0>>

\* The n resources build w adds, each a text of its own.
Resources(w, n) == [i \in 1..n |-> <<w, i>>]

\* No build has touched the store.
StoreUnused ==
    /\ store_file = Absent
    /\ add_texts_returns = "ids"
    /\ active = {}
    /\ resources = [w \in Builds |-> <<>>]
    /\ wop = [w \in Builds |-> "none"]
    /\ wpc = [w \in Builds |-> "idle"]
    /\ wvs = [w \in Builds |-> Unbound]
    /\ wnew = [w \in Builds |-> Unbound]
    /\ wexc = [w \in Builds |-> "none"]
    /\ added = {}

----------------------------------------------------------------------------
Init ==
    /\ ui = "idle"
    /\ pc = "new"
    /\ exc = "none"
    /\ project_name = ""
    /\ requirements = EmptyDict
    /\ search_results = {}
    /\ search_queries = <<>>
    /\ parsed = "none"
    /\ max_iterations \in 1..MaxAttempts
    /\ twilio_creds \in BOOLEAN
    /\ twilio_client = FALSE
    /\ twilio_from \in BOOLEAN
    /\ twilio_to \in BOOLEAN
    /\ attempt = 0
    /\ success = FALSE
    /\ attempts = <<>>
    /\ repairs = <<>>
    /\ results = <<>>
    /\ lint_results = <<>>
    /\ deploy_results = <<>>
    /\ stages = <<>>
    /\ trace = <<>>
    /\ StoreUnused

config == <<max_iterations, twilio_creds, twilio_client, twilio_from,
            twilio_to>>
loopvars == <<attempt, success, attempts, repairs, results>>
reqvars == <<project_name, requirements, search_results, search_queries,
             parsed>>

\* The exception of a handler swallowed: build_app goes on to `next`.
RanWithSwallowed(name, events, e, next) ==
    /\ stages' = Append(stages, name)
    /\ trace' = trace \o events
    /\ exc' = e
    /\ pc' = next

\* A handler was invoked and ran `steps`: record it, and either go on to
\* `next` or let the exception leave build_app.
RanWith(name, events, e, next) ==
    /\ stages' = Append(stages, name)
    /\ trace' = trace \o events
    /\ exc' = e
    /\ pc' = IF e = "none" THEN next ELSE "raised"

Ran(name, steps, next) == RanWith(name, Events(steps), ExcOf(steps), next)

----------------------------------------------------------------------------
\* streamlit_app.py: the Start Building button.

\* Empty input: only the warning is shown.
StartBuildingEmpty ==
    /\ ui \in {"idle", "warning"}
    /\ pc = "new"
    /\ ui' = "warning"
    /\ UNCHANGED <<storevars, pc, exc, reqvars, config, loopvars, lint_results,
                   deploy_results, stages, trace>>

\* Non-empty input: the orchestrator is constructed (__init__ builds the
\* Twilio client from the environment, whatever it holds) and build_app
\* starts.
StartBuilding ==
    /\ ui \in {"idle", "warning"}
    /\ pc = "new"
    /\ ui' = "building"
    /\ pc' = "gather"
    /\ twilio_client' = TRUE
    /\ UNCHANGED <<storevars, exc, reqvars, max_iterations, twilio_creds, twilio_from,
                   twilio_to, loopvars, lint_results, deploy_results, stages,
                   trace>>

\* Non-empty input, credentials missing, and Client(None, None) raises: the
\* constructor call is outside the handler's try block, so the exception
\* reaches the page and build_app is never started.
StartBuildingClientRaises ==
    /\ ui \in {"idle", "warning"}
    /\ pc = "new"
    /\ ~twilio_creds
    /\ ui' = "exception"
    /\ exc' = "TwilioException"
    /\ UNCHANGED <<storevars, pc, reqvars, config, loopvars, lint_results,
                   deploy_results, stages, trace>>

----------------------------------------------------------------------------
\* build_app, one action per orchestrator method it awaits.

gather_steps ==
    send_sms("Gathering requirements...", TRUE)
    \o Call("model", "generate_requirements", TRUE)
    \o send_sms("Requirements gathered for {project_name}", TRUE)

gather_requirements ==
    /\ pc = "gather"
    /\ \E response \in LLMResponses :
        LET reqs == generate_requirements(response)
            ok == gather_steps
            modelAt == Len(send_sms("Gathering requirements...", TRUE)) + 1
        IN \E f \in FailChoices(ok) :
            LET steps == MarkFail(ok, f)
                assigned == RaiseIdx(steps) = 0 \/ RaiseIdx(steps) > modelAt
            IN /\ Ran("gather_requirements", steps, "queries")
               /\ parsed' = IF ~assigned THEN parsed
                            ELSE IF response.valid THEN "json"
                            ELSE "unparseable"
               /\ requirements' = IF assigned THEN reqs ELSE requirements
               /\ project_name' =
                    IF assigned THEN GetAppName(reqs) ELSE project_name
    /\ UNCHANGED <<storevars, ui, search_results, search_queries, config, loopvars,
                   lint_results, deploy_results>>


\* build_app lines 200-202: derive the queries; search only if there are any.
derive_search_queries ==
    /\ pc = "queries"
    /\ search_queries' = generate_search_queries(requirements)
    /\ stages' = Append(stages, "generate_search_queries")
    /\ pc' = IF generate_search_queries(requirements) # <<>>
             THEN "search" ELSE "scaffold"
    /\ UNCHANGED <<storevars, ui, exc, project_name, requirements, search_results,
                   parsed, config, loopvars, lint_results, deploy_results,
                   trace>>

\* One query of perform_search: search.run, then add_resources_to_store on
\* the snippets of results[:3], one add_document_to_store per snippet.
query_steps(query, nresults) ==
    Call("search", query.feature, TRUE)
    \o [j \in 1..Min(nresults, TopK) |-> Step("index", "snippet", "ok", "none")]

RECURSIVE queries_steps(_, _, _)
queries_steps(queries, nresults, i) ==
    IF i > Len(queries) THEN <<>>
    ELSE query_steps(queries[i], nresults[i])
         \o queries_steps(queries, nresults, i + 1)

search_steps(queries, nresults) ==
    send_sms("Performing external searches...", TRUE)
    \o queries_steps(queries, nresults, 1)
    \o send_sms("Search completed and indexed.", TRUE)

\* Number of calls perform_search has made when query i's results are stored.
QueryEnd(queries, nresults, i) ==
    Len(send_sms("Performing external searches...", TRUE))
    + Len(queries_steps(SubSeq(queries, 1, i), nresults, 1))

perform_search ==
    /\ pc = "search"
    /\ \E nresults \in [1..Len(search_queries) -> 0..MaxResults] :
        LET ok == search_steps(search_queries, nresults)
        IN \E f \in FailChoices(ok) :
            LET steps == MarkFail(ok, f)
                stored(i) == \/ RaiseIdx(steps) = 0
                             \/ RaiseIdx(steps) > QueryEnd(search_queries, nresults, i)
            IN /\ Ran("perform_search", steps, "scaffold")
               /\ search_results' = search_results \cup
                    { [query |-> search_queries[i],
                       docs |-> Min(nresults[i], TopK)] :
                      i \in {j \in 1..Len(search_queries) : stored(j)} }
    /\ UNCHANGED <<storevars, ui, project_name, requirements, search_queries, parsed,
                   config, loopvars, lint_results, deploy_results>>

Directories == <<"frontend", "backend", "ios", "tests", "docs", "configs">>

scaffold_steps ==
    send_sms("Creating project structure...", TRUE)
    \o [i \in 1..Len(Directories) |-> Step("mkdir", Directories[i], "ok", "none")]
    \o send_sms("Project structure created.", TRUE)

create_project_structure ==
    /\ pc = "scaffold"
    /\ \E f \in FailChoices(scaffold_steps) :
        Ran("create_project_structure", MarkFail(scaffold_steps, f), "generate")
    /\ UNCHANGED <<storevars, ui, reqvars, config, loopvars, lint_results,
                   deploy_results>>

\* generate_frontend_code / generate_backend_code / generate_ios_code
generate_target_code(language, file) ==
    Call("model", language, TRUE) \o Call("write", file, TRUE)

generate_steps ==
    send_sms("Generating code...", TRUE)
    \o generate_target_code("React", "frontend/App.js")
    \o generate_target_code("Python", "backend/app.py")
    \o generate_target_code("SwiftUI", "ios/App.swift")
    \o send_sms("Code generation complete.", TRUE)

generate_code ==
    /\ pc = "generate"
    /\ \E f \in FailChoices(generate_steps) :
        Ran("generate_code", MarkFail(generate_steps, f), "lint")
    /\ UNCHANGED <<storevars, ui, reqvars, config, loopvars, lint_results,
                   deploy_results>>


\* pylint and eslint swapped.
lint_commands_swapped == <<"black", "eslint", "pylint", "swiftlint">>

\* lint_and_validate: the four lint commands, each with check=True.
lint_commands == <<"black", "pylint", "eslint", "swiftlint">>

RECURSIVE checked_runs(_, _, _)
checked_runs(cmds, outs, i) ==
    IF i > Len(cmds) THEN <<>>
    ELSE checked_run(cmds[i], outs[i]) \o checked_runs(cmds, outs, i + 1)

lint_steps(ok1, outs, ok2) ==
    send_sms("Running linters...", ok1)
    \o checked_runs(lint_commands, outs, 1)
    \o send_sms("Linting completed.", ok2)

lint_and_validate ==
    /\ pc = "lint"
    /\ \E ok1 \in SmsOutcomes, ok2 \in SmsOutcomes,
          f \in 0..Len(lint_commands), out \in Outcomes :
        LET outs == FailAt(Len(lint_commands), f, out)
            steps == lint_steps(ok1, outs, ok2)
        IN /\ Ran("lint_and_validate", steps, "test")
           /\ lint_results' = RunOutcomes(steps)
           /\ attempt' = IF ExcOf(steps) = "none" THEN 1 ELSE attempt
    /\ UNCHANGED <<storevars, ui, reqvars, config, success, attempts, repairs, results,
                   deploy_results>>

----------------------------------------------------------------------------
\* iterate_until_success

\* The loop bound off by one: range(1, self.max_iterations + 2).
InRangeOffByOne(a, max) == a <= max + 1

\* for attempt in range(1, self.max_iterations + 1)
InRange(a, max) == a <= max

\* all_passed = backend_result and frontend_result and ios_result
all_passed(rs) == \A i \in 1..Len(rs) : rs[i] = "ok"

test_commands == <<"pytest", "npm test", "xcodebuild test">>

RECURSIVE run_subprocesses(_, _, _)
run_subprocesses(cmds, outs, i) ==
    IF i > Len(cmds) THEN <<>>
    ELSE run_subprocess(cmds[i], outs[i]) \o run_subprocesses(cmds, outs, i + 1)

test_steps(ok1, outs, ok2) ==
    send_sms("Running tests...", ok1)
    \o run_subprocesses(test_commands, outs, 1)
    \o send_sms(IF all_passed(outs) THEN "All tests passed successfully!"
                ELSE "Some tests failed.", ok2)

\* What run_tests gives iterate_until_success.
Verdict(steps, outs) ==
    IF ExcOf(steps) # "none" THEN "raised"
    ELSE IF all_passed(outs) THEN "pass" ELSE "fail"

\* The early return dropped: the loop goes on after a passing run.
NeverReturnsOnPass(verdict) == FALSE

\* The test inverted: the loop returns True after a failing run.
ReturnsOnFail(verdict) == verdict = "fail"

\* if await self.run_tests(): return True
ReturnsOnPass(verdict) == verdict = "pass"

run_tests ==
    /\ pc = "test"
    /\ \E ok1 \in SmsOutcomes, ok2 \in SmsOutcomes,
          outs \in [1..Len(test_commands) -> Outcomes] :
        LET steps == test_steps(ok1, outs, ok2)
            verdict == Verdict(steps, outs)
        IN /\ RanWith("run_tests", Events(steps), ExcOf(steps),
                      IF ReturnsOnPass(verdict) THEN "decide" ELSE "fix")
           /\ results' = RunOutcomes(steps)
           /\ attempts' = Append(attempts, verdict)
           /\ success' = IF ReturnsOnPass(verdict) THEN TRUE ELSE success
    /\ UNCHANGED <<storevars, ui, reqvars, config, attempt, repairs, lint_results,
                   deploy_results>>

\* MyHostedModel.fix_code: returns True once the model call returned.
fix_code(ok) == IF ok THEN "True" ELSE "raise"

fix_steps(ok1, okModel, ok2) ==
    send_sms("Attempting to fix errors...", ok1)
    \o Call("model", "fix_code", okModel)
    \o send_sms(IF fix_code(okModel) = "True" THEN "Errors fixed, re-testing..."
                ELSE "No fixes applied.", ok2)

\* fix_errors, then the next turn of the for loop.
fix_errors ==
    /\ pc = "fix"
    /\ \E ok1 \in SmsOutcomes, okModel \in BOOLEAN, ok2 \in SmsOutcomes :
        LET steps == fix_steps(ok1, okModel, ok2)
            called == \E i \in 1..Len(Executed(steps)) :
                         Executed(steps)[i].kind = "model"
        IN /\ Ran("fix_errors", steps,
                  IF InRange(attempt + 1, max_iterations)
                  THEN "test" ELSE "exhausted")
           /\ repairs' = Append(repairs,
                            IF called THEN fix_code(okModel) ELSE "not_called")
           /\ attempt' = IF ExcOf(steps) = "none" THEN attempt + 1 ELSE attempt
    /\ UNCHANGED <<storevars, ui, reqvars, config, success, attempts, results,
                   lint_results, deploy_results>>

\* Lines 167-169: the loop ran out.
max_attempts_reached ==
    /\ pc = "exhausted"
    /\ \E ok \in SmsOutcomes :
        LET steps == send_sms("Max attempts reached, tests failing.", ok)
        IN /\ trace' = trace \o Events(steps)
           /\ exc' = ExcOf(steps)
           /\ pc' = IF ExcOf(steps) = "none" THEN "decide" ELSE "raised"
    /\ success' = FALSE
    /\ UNCHANGED <<storevars, ui, reqvars, config, attempt, attempts, repairs, results,
                   lint_results, deploy_results, stages>>


----------------------------------------------------------------------------
\* deploy

\* deploy_ios awaited before deploy_frontend.
deploy_commands_ios_first ==
    <<"docker-compose build", "docker-compose push", "terraform apply",
      "fastlane release", "vercel --prod">>

\* deploy_backend (three commands), deploy_frontend, deploy_ios, in the
\* order deploy awaits them; every command runs with check=True.
deploy_commands ==
    <<"docker-compose build", "docker-compose push", "terraform apply",
      "vercel --prod", "fastlane release">>

\* The body of deploy's try block.
deploy_body(outs, ok2) ==
    checked_runs(deploy_commands, outs, 1)
    \o send_sms("Deployment successful.", ok2)

\* Events of deploy after its first SMS: the try body and, if it raised,
\* the except block's SMS.
deploy_events(outs, ok2, ok3) ==
    Events(deploy_body(outs, ok2))
    \o (IF ExcOf(deploy_body(outs, ok2)) = "none" THEN <<>>
        ELSE Events(send_sms("Deployment failed.", ok3)))

\* Exception leaving deploy's try statement: `raise e`, unless the except
\* block's own SMS raised first.
deploy_exc(outs, ok2, ok3) ==
    IF ExcOf(deploy_body(outs, ok2)) = "none" THEN "none"
    ELSE IF ExcOf(send_sms("Deployment failed.", ok3)) # "none"
         THEN ExcOf(send_sms("Deployment failed.", ok3))
         ELSE ExcOf(deploy_body(outs, ok2))

\* The test on `success` dropped: deploy is awaited unconditionally.
AlwaysDeploy(s) == TRUE

\* build_app: if success: await self.deploy()
ShouldDeploy(s) == s

deploy ==
    /\ pc = "decide"
    /\ ShouldDeploy(success)
    /\ \E ok1 \in SmsOutcomes, ok2 \in SmsOutcomes, ok3 \in SmsOutcomes,
          f \in 0..Len(deploy_commands), out \in Outcomes :
        LET outs == FailAt(Len(deploy_commands), f, out)
            pre == send_sms("Deploying application...", ok1)
        IN IF ExcOf(pre) # "none"
           THEN /\ Ran("deploy", pre, "returned")
                /\ deploy_results' = <<>>
           ELSE /\ RanWith("deploy",
                           Events(pre) \o deploy_events(outs, ok2, ok3),
                           deploy_exc(outs, ok2, ok3), "returned")
                /\ deploy_results' = RunOutcomes(deploy_body(outs, ok2))
    /\ UNCHANGED <<storevars, ui, reqvars, config, loopvars, lint_results>>

\* build_app's else branch: only a warning is logged, build_app returns.
skip_deployment ==
    /\ pc = "decide"
    /\ ~ShouldDeploy(success)
    /\ pc' = "returned"
    /\ UNCHANGED <<storevars, ui, exc, reqvars, config, loopvars, lint_results,
                   deploy_results, stages, trace>>

----------------------------------------------------------------------------
\* streamlit_app.py lines 20-24: what the page shows when build_app is over.

\* run_until_complete returned: st.success
ReportSuccess ==
    /\ ui = "building"
    /\ pc = "returned"
    /\ ui' = "success"
    /\ UNCHANGED <<storevars, pc, exc, reqvars, config, loopvars, lint_results,
                   deploy_results, stages, trace>>

\* except Exception: st.error
ReportError ==
    /\ ui = "building"
    /\ pc = "raised"
    /\ ui' = "error"
    /\ UNCHANGED <<storevars, pc, exc, reqvars, config, loopvars, lint_results,
                   deploy_results, stages, trace>>

----------------------------------------------------------------------------
Next ==
    \/ StartBuildingEmpty
    \/ StartBuilding
    \/ StartBuildingClientRaises
    \/ gather_requirements
    \/ derive_search_queries
    \/ perform_search
    \/ create_project_structure
    \/ generate_code
    \/ lint_and_validate
    \/ run_tests
    \/ fix_errors
    \/ max_attempts_reached
    \/ deploy
    \/ skip_deployment
    \/ ReportSuccess
    \/ ReportError

Spec == Init /\ [][Next]_vars

----------------------------------------------------------------------------
\* The Retry Controller on its own: iterate_until_success from its entry, in
\* a build whose requirements name no feature (so nothing was searched) and
\* whose earlier steps all succeeded.

FeaturelessResponse ==
    CHOOSE r \in LLMResponses : r.valid /\ GetFeatures(r.json) = <<>>

RetryInit ==
    /\ ui = "building"
    /\ pc = "test"
    /\ exc = "none"
    /\ parsed = "json"
    /\ requirements = generate_requirements(FeaturelessResponse)
    /\ project_name = GetAppName(generate_requirements(FeaturelessResponse))
    /\ search_results = {}
    /\ search_queries = <<>>
    /\ max_iterations \in 1..MaxAttempts
    /\ twilio_creds \in BOOLEAN
    /\ twilio_client = TRUE
    /\ twilio_from \in BOOLEAN
    /\ twilio_to \in BOOLEAN
    /\ twilio_creds \/ ~(twilio_from /\ twilio_to)
    /\ attempt = 1
    /\ success = FALSE
    /\ attempts = <<>>
    /\ repairs = <<>>
    /\ results = <<>>
    /\ lint_results = FailAt(Len(lint_commands), 0, "ok")
    /\ deploy_results = <<>>
    /\ stages = <<"gather_requirements", "generate_search_queries",
                  "create_project_structure", "generate_code",
                  "lint_and_validate">>
    /\ trace = Events(gather_steps) \o Events(scaffold_steps)
                  \o Events(generate_steps)
                  \o Events(lint_steps(TRUE, lint_results, TRUE))
    /\ StoreUnused

RetryNext ==
    \/ run_tests
    \/ fix_errors
    \/ max_attempts_reached

\* Every awaited test run, repair call and SMS returns or raises: the
\* controller never waits forever.
RetrySpec == RetryInit /\ [][RetryNext]_vars /\ WF_vars(RetryNext)

----------------------------------------------------------------------------
\* The vector store on its own (vectorstore.py, rag_chain.py): the builds in
\* `active` call add_document_to_store for each of their resources and
\* search_vectorstore, each call a run of steps that other builds' steps
\* may come between.

buildvars == <<ui, pc, exc, reqvars, config, loopvars, lint_results,
               deploy_results, stages, trace>>

StoreInit ==
    /\ ui = "idle"
    /\ pc = "new"
    /\ exc = "none"
    /\ project_name = ""
    /\ requirements = EmptyDict
    /\ search_results = {}
    /\ search_queries = <<>>
    /\ parsed = "none"
    /\ max_iterations = MaxAttempts
    /\ twilio_creds = FALSE
    /\ twilio_client = FALSE
    /\ twilio_from = FALSE
    /\ twilio_to = FALSE
    /\ attempt = 0
    /\ success = FALSE
    /\ attempts = <<>>
    /\ repairs = <<>>
    /\ results = <<>>
    /\ lint_results = <<>>
    /\ deploy_results = <<>>
    /\ stages = <<>>
    /\ trace = <<>>
    /\ store_file = Absent
    /\ add_texts_returns \in {"ids", "store"}
    /\ active \in (SUBSET Builds) \ {{}}
    /\ \E n \in [Builds -> 0..MaxResources] :
          resources = [w \in Builds |->
                          IF w \in active THEN Resources(w, n[w]) ELSE <<>>]
    /\ wop = [w \in Builds |-> "none"]
    /\ wpc = [w \in Builds |-> "idle"]
    /\ wvs = [w \in Builds |-> Unbound]
    /\ wnew = [w \in Builds |-> Unbound]
    /\ wexc = [w \in Builds |-> "none"]
    /\ added = {}

\* The exception e leaves the vectorstore.py function build w is in.
StoreRaise(w, e) ==
    /\ wpc' = [wpc EXCEPT ![w] = "raised"]
    /\ wexc' = [wexc EXCEPT ![w] = e]

\* Where get_vectorstore returns to.
AfterGet(w) == IF wop[w] = "add" THEN "add_texts" ELSE "similarity_search"

\* add_resources_to_store: for res in resources: add_document_to_store(res)
add_document_to_store(w) ==
    /\ wpc[w] = "idle"
    /\ resources[w] # <<>>
    /\ wop' = [wop EXCEPT ![w] = "add"]
    /\ wpc' = [wpc EXCEPT ![w] = "exists"]
    /\ UNCHANGED <<buildvars, store_file, add_texts_returns, active,
                   resources, wvs, wnew, wexc, added>>

\* rag_search_and_store: results = search_vectorstore(query, k=3)
search_vectorstore(w) ==
    /\ wpc[w] = "idle"
    /\ wop' = [wop EXCEPT ![w] = "search"]
    /\ wpc' = [wpc EXCEPT ![w] = "exists"]
    /\ UNCHANGED <<buildvars, store_file, add_texts_returns, active,
                   resources, wvs, wnew, wexc, added>>

\* get_vectorstore: if os.path.exists(VECTOR_STORE_PATH)
path_exists(w) ==
    /\ wpc[w] = "exists"
    /\ wpc' = [wpc EXCEPT ![w] = IF store_file = Absent THEN "create"
                                 ELSE "load"]
    /\ UNCHANGED <<buildvars, store_file, add_texts_returns, active,
                   resources, wop, wvs, wnew, wexc, added>>

\* get_vectorstore: vs = pickle.load(f); a file another build has opened
\* for writing and not yet written is empty, and pickle.load raises.
pickle_load(w) ==
    /\ wpc[w] = "load"
    /\ IF store_file = Truncated
       THEN /\ StoreRaise(w, "EOFError")
            /\ UNCHANGED wvs
       ELSE /\ wvs' = [wvs EXCEPT ![w] = store_file]
            /\ wpc' = [wpc EXCEPT ![w] = AfterGet(w)]
            /\ UNCHANGED wexc
    /\ UNCHANGED <<buildvars, store_file, add_texts_returns, active,
                   resources, wop, wnew, added>>

\* get_vectorstore: vs = FAISS.from_texts(["initial text"], embeddings);
\* open(VECTOR_STORE_PATH, "wb")
from_texts(w) ==
    /\ wpc[w] = "create"
    /\ wvs' = [wvs EXCEPT ![w] = FAISS(<<InitialText>>)]
    /\ store_file' = Truncated
    /\ wpc' = [wpc EXCEPT ![w] = "dump_vs"]
    /\ UNCHANGED <<buildvars, add_texts_returns, active, resources, wop,
                   wnew, wexc, added>>

\* get_vectorstore: pickle.dump(vs, f); return vs
dump_vs(w) ==
    /\ wpc[w] = "dump_vs"
    /\ store_file' = wvs[w]
    /\ wpc' = [wpc EXCEPT ![w] = AfterGet(w)]
    /\ UNCHANGED <<buildvars, add_texts_returns, active, resources, wop,
                   wvs, wnew, wexc, added>>

\* What add_texts hands back: the ids of the texts it added, or, as
\* add_document_to_store expects, the store with the texts added.
AddTextsResult(vs, text) ==
    IF add_texts_returns = "store" THEN vs ELSE IdList(<<text>>)

\* add_document_to_store: new_vs = vs.add_texts([text], embeddings); a `vs`
\* that is not a store has no add_texts.
add_texts(w) ==
    /\ wpc[w] = "add_texts"
    /\ IF wvs[w].kind = "store"
       THEN LET text == Head(resources[w])
                vs == FAISS(Append(wvs[w].texts, text))
            IN  /\ wvs' = [wvs EXCEPT ![w] = vs]
                /\ wnew' = [wnew EXCEPT ![w] = AddTextsResult(vs, text)]
                /\ wpc' = [wpc EXCEPT ![w] = "open"]
                /\ UNCHANGED wexc
       ELSE /\ StoreRaise(w, "AttributeError")
            /\ UNCHANGED <<wvs, wnew>>
    /\ UNCHANGED <<buildvars, store_file, add_texts_returns, active,
                   resources, wop, added>>

\* add_document_to_store: open(VECTOR_STORE_PATH, "wb")
open_wb(w) ==
    /\ wpc[w] = "open"
    /\ store_file' = Truncated
    /\ wpc' = [wpc EXCEPT ![w] = "dump_new_vs"]
    /\ UNCHANGED <<buildvars, add_texts_returns, active, resources, wop,
                   wvs, wnew, wexc, added>>

\* add_document_to_store: pickle.dump(new_vs, f), and the return
dump_new_vs(w) ==
    /\ wpc[w] = "dump_new_vs"
    /\ store_file' = wnew[w]
    /\ added' = added \cup {Head(resources[w])}
    /\ resources' = [resources EXCEPT ![w] = Tail(resources[w])]
    /\ wop' = [wop EXCEPT ![w] = "none"]
    /\ wpc' = [wpc EXCEPT ![w] = "idle"]
    /\ wvs' = [wvs EXCEPT ![w] = Unbound]
    /\ wnew' = [wnew EXCEPT ![w] = Unbound]
    /\ UNCHANGED <<buildvars, add_texts_returns, active, wexc>>

\* search_vectorstore: return vs.similarity_search(query, k=k); a `vs` that
\* is not a store has no similarity_search.
similarity_search(w) ==
    /\ wpc[w] = "similarity_search"
    /\ IF wvs[w].kind = "store"
       THEN /\ wop' = [wop EXCEPT ![w] = "none"]
            /\ wpc' = [wpc EXCEPT ![w] = "idle"]
            /\ wvs' = [wvs EXCEPT ![w] = Unbound]
            /\ UNCHANGED wexc
       ELSE /\ StoreRaise(w, "AttributeError")
            /\ UNCHANGED <<wop, wvs>>
    /\ UNCHANGED <<buildvars, store_file, add_texts_returns, active,
                   resources, wnew, added>>

StoreNext ==
    \/ \E w \in active : add_document_to_store(w)
    \/ \E w \in active : search_vectorstore(w)
    \/ \E w \in active : path_exists(w)
    \/ \E w \in active : pickle_load(w)
    \/ \E w \in active : from_texts(w)
    \/ \E w \in active : dump_vs(w)
    \/ \E w \in active : add_texts(w)
    \/ \E w \in active : open_wb(w)
    \/ \E w \in active : dump_new_vs(w)
    \/ \E w \in active : similarity_search(w)

StoreSpec == StoreInit /\ [][StoreNext]_vars

StoreTypeOK ==
    /\ store_file.kind \in {"absent", "empty", "store", "ids"}
    /\ active \subseteq Builds
    /\ \A w \in Builds :
          /\ wop[w] \in {"none", "add", "search"}
          /\ wpc[w] \in {"idle", "exists", "load", "create", "dump_vs",
                         "add_texts", "open", "dump_new_vs",
                         "similarity_search", "raised"}
          /\ (wpc[w] = "raised") = (wexc[w] # "none")
          /\ Len(resources[w]) <= MaxResources

TypeOK ==
    /\ ui \in {"idle", "warning", "building", "success", "error",
              "exception"}
    /\ pc \in {"new", "gather", "queries", "search", "scaffold", "generate",
               "lint", "test", "fix", "exhausted", "decide", "returned",
               "raised"}
    /\ max_iterations \in 1..MaxAttempts
    /\ attempt \in 0..(MaxAttempts + 1)
    /\ (pc = "raised" \/ ui = "exception") = (exc # "none")


----------------------------------------------------------------------------
\* Properties

Invoked(name) == name \in Range(stages)

\* Subprocess commands run so far, in order.
IsRunEvent(e) == e.kind = "run"
CommandsRun == SelectSeq(trace, IsRunEvent)

IsDeployEvent(e) ==
    /\ e.kind = "run"
    /\ e.arg \in {"docker-compose build", "docker-compose push",
                  "terraform apply", "vercel --prod", "fastlane release"}
DeployCommandsRun == SelectSeq(trace, IsDeployEvent)

\* The order the Deployment Stage is specified to follow.
BackendFrontendMobile ==
    <<"docker-compose build", "docker-compose push", "terraform apply",
      "vercel --prod", "fastlane release">>

\* C1: the number of Test Stage runs never exceeds max_attempts.
AttemptsNeverExceedMax == Len(attempts) <= max_iterations

\* All max_attempts >= 2 test runs were made and the loop ran out.
AttemptsReachMax ==
    /\ max_iterations >= 2
    /\ Len(attempts) = max_iterations
    /\ pc = "decide"
    /\ ~success

\* C2: deploy is invoked, and a deployment command run, only if the last
\* Test Stage run of the build passed; after max_attempts failed runs no
\* deployment command is run.
DeployOnlyAfterPass ==
    /\ (Invoked("deploy") \/ DeployCommandsRun # <<>>) =>
          /\ attempts # <<>>
          /\ Last(attempts) = "pass"
    /\ (/\ Len(attempts) = max_iterations
        /\ \A i \in 1..Len(attempts) : attempts[i] = "fail") =>
          /\ ~Invoked("deploy")
          /\ DeployCommandsRun = <<>>

\* Deployment ran after a test run that passed on a retry.
DeployedAfterRetry ==
    /\ Invoked("deploy")
    /\ DeployCommandsRun # <<>>
    /\ Len(attempts) >= 2

\* C3: when the test run number max_attempts fails, the controller does not
\* go on to the Repair Step, so a run makes at most max_attempts - 1 repair
\* invocations (none at max_attempts = 1).
NoRepairAfterLastAttempt ==
    /\ (Len(attempts) = max_iterations /\ Last(attempts) = "fail") =>
          pc # "fix"
    /\ Len(repairs) <= max_iterations - 1

\* C4 as stated: the attempt sequence has length max_attempts only if no
\* attempt's test verdict passed.
FullLengthOnlyIfAllFailed ==
    Len(attempts) = max_iterations =>
        \A i \in 1..Len(attempts) : attempts[i] # "pass"

\* C4 as amended: the attempt sequence has length max_attempts only if the
\* test verdict of every attempt before the last one failed.
FullLengthOnlyIfEarlierFailed ==
    Len(attempts) = max_iterations =>
        \A i \in 1..(Len(attempts) - 1) : attempts[i] = "fail"

\* The last of max_attempts >= 2 attempts passed.
PassedOnLastAttempt ==
    /\ max_iterations >= 2
    /\ Len(attempts) = max_iterations
    /\ Last(attempts) = "pass"

\* C5: once a lint command has failed, the Test Stage, the Repair Step and
\* the Deployment Stage are never invoked in that build.
LintFailed == \E i \in 1..Len(lint_results) : lint_results[i] # "ok"

LintFailFast ==
    LintFailed =>
        /\ ~Invoked("run_tests")
        /\ ~Invoked("fix_errors")
        /\ ~Invoked("deploy")
        /\ \A i \in 1..Len(CommandsRun) :
              CommandsRun[i].arg \in Range(lint_commands)

\* A lint command exited non-zero and the build was reported as failed.
LintFailureReported ==
    /\ "fail" \in Range(lint_results)
    /\ ui = "error"

\* C6: deployment commands run in the order backend, frontend, mobile; a
\* command that fails is the last one run and the stage raises.
DeployInOrderFailFast ==
    /\ Len(DeployCommandsRun) <= Len(BackendFrontendMobile)
    /\ \A i \in 1..Len(DeployCommandsRun) :
          DeployCommandsRun[i].arg = BackendFrontendMobile[i]
    /\ Len(deploy_results) = Len(DeployCommandsRun)
    /\ \A i \in 1..Len(deploy_results) :
          deploy_results[i] # "ok" =>
              /\ i = Len(deploy_results)
              /\ pc = "raised"
              /\ exc # "none"

\* The frontend deployment failed after the backend was deployed.
FrontendDeployFailed ==
    /\ deploy_results = <<"ok", "ok", "ok", "fail">>
    /\ pc = "raised"

\* C7: the page shows success only for a build whose deployment ran and
\* completed.
DeployCompleted ==
    /\ Invoked("deploy")
    /\ Len(deploy_results) = Len(BackendFrontendMobile)
    /\ \A i \in 1..Len(deploy_results) : deploy_results[i] = "ok"

SuccessOnlyWhenDeployed == ui = "success" => DeployCompleted

\* C8: an exception of fix_code does not leave the Repair Step.
RepairFailureNotPropagated ==
    (repairs # <<>> /\ Last(repairs) = "raise") =>
        /\ pc # "raised"
        /\ exc = "none"

\* C9: a test command that cannot be launched gives a failed result, not an
\* exception: the Test Stage still returns a verdict.
ToolRunnerNeverRaises ==
    "nolaunch" \in Range(results) =>
        /\ exc # "FileNotFoundError"
        /\ attempts # <<>>
        /\ Last(attempts) # "raised"

\* C10: a failing send of a notification never fails the build.
NotifyFailureNeverFailsBuild == exc # "TwilioRestException"


\* C11: with the notification channel unconfigured (credentials, from or to
\* number missing) constructing the orchestrator raises nothing, and no
\* send_sms call sends or raises anything.
ChannelConfigured == twilio_creds /\ twilio_from /\ twilio_to

IsSmsEvent(e) == e.kind = "sms"

UnconfiguredIsSilentNoOp ==
    ~ChannelConfigured =>
        /\ SelectSeq(trace, IsSmsEvent) = <<>>
        /\ exc \notin {"TwilioException", "TwilioRestException"}
        /\ ui # "exception"

\* The stages of build_app in the order it awaits them; run_tests and
\* fix_errors are the Retry Controller.
StageRank(name) ==
    CASE name = "gather_requirements"      -> 1
      [] name = "generate_search_queries"  -> 2
      [] name = "perform_search"           -> 3
      [] name = "create_project_structure" -> 4
      [] name = "generate_code"            -> 5
      [] name = "lint_and_validate"        -> 6
      [] name = "run_tests"                -> 7
      [] name = "fix_errors"               -> 7
      [] name = "deploy"                   -> 8

\* Every stage follows the stage right before it in the fixed order (the
\* search only with queries, and scaffolding right after the query
\* derivation only without), and only the Retry Controller repeats.
StagesInOrder ==
    /\ stages # <<>> => stages[1] = "gather_requirements"
    /\ \A i \in 2..Len(stages) :
          \/ StageRank(stages[i]) = StageRank(stages[i - 1]) + 1
          \/ /\ StageRank(stages[i]) = 7
             /\ StageRank(stages[i - 1]) = 7
          \/ /\ stages[i] = "create_project_structure"
             /\ stages[i - 1] = "generate_search_queries"
             /\ search_queries = <<>>
    /\ Invoked("perform_search") => search_queries # <<>>
    /\ Invoked("deploy") => success

\* C13: build_app runs its steps in the fixed order gather, derive queries,
\* search (only with queries), scaffold, generate, lint, Retry Controller,
\* deploy (only if SUCCEEDED), and once a step has failed no further step
\* or external call is made.
BuildStepsInOrder ==
    /\ [](StagesInOrder)
    /\ [][exc # "none" => (stages' = stages /\ trace' = trace)]_vars

\* A build with queries went through every step up to deployment.
FullBuildWithSearch ==
    /\ Invoked("perform_search")
    /\ Invoked("deploy")
    /\ pc = "returned"

\* C14: every run_tests invocation runs the three test commands in the
\* order backend, frontend, iOS and returns the AND of their results.
TestsRunAllTargets ==
    Invoked("run_tests") =>
        /\ Len(results) = 3
        /\ attempts # <<>>
        /\ Last(attempts) \in {"pass", "fail"}
        /\ (Last(attempts) = "pass") = (\A i \in 1..3 : results[i] = "ok")
        /\ Len(CommandsRun) >= 3
        /\ \A i \in {j \in 1..Len(CommandsRun) :
                        CommandsRun[j].arg = "npm test"} :
              /\ i > 1
              /\ CommandsRun[i - 1].arg = "pytest"
              /\ i < Len(CommandsRun)
              /\ CommandsRun[i + 1].arg = "xcodebuild test"


\* C15: when the tests fail on attempts 1..k-1 and pass on attempt k, the
\* controller is SUCCEEDED after exactly k test runs and k-1 repairs.
PassOnAttemptK ==
    \A k \in 1..Len(attempts) :
        attempts[k] = "pass" =>
            /\ k = Len(attempts)
            /\ k <= max_iterations
            /\ \A i \in 1..(k - 1) : attempts[i] = "fail"
            /\ Len(repairs) = k - 1
            /\ success
            /\ pc \in {"decide", "returned", "raised"}

\* The tests passed on the third attempt or later.
PassedAfterTwoRepairs ==
    /\ Len(attempts) >= 3
    /\ Last(attempts) = "pass"
    /\ success

\* C16: the Retry Controller's terminal states.  SUCCEEDED: the loop
\* returned True.  EXHAUSTED: the for loop ran out.
Succeeded == success
Exhausted == attempt > max_iterations
AllAttemptsFailed ==
    /\ Len(attempts) = max_iterations
    /\ \A i \in 1..Len(attempts) : attempts[i] = "fail"

\* A Test Stage run or a Repair Step call did not return: it raised.
LoopCallRaised ==
    /\ exc # "none"
    /\ stages # <<>>
    /\ Last(stages) \in {"run_tests", "fix_errors"}

\* C16: if every test run and every repair call returns, the controller
\* reaches SUCCEEDED or EXHAUSTED and then runs no further test or repair;
\* SUCCEEDED exactly when a test run passed, EXHAUSTED exactly when all
\* max_attempts test runs failed.
RetryTerminates ==
    /\ [](pc = "test" => <>(Succeeded \/ Exhausted \/ LoopCallRaised))
    /\ [](Succeeded \/ Exhausted => pc \notin {"test", "fix"})
    /\ [](Succeeded = ("pass" \in Range(attempts)))
    /\ [](Exhausted => AllAttemptsFailed)
    /\ [](AllAttemptsFailed => <>(Exhausted \/ LoopCallRaised))
    /\ [][(Succeeded \/ Exhausted) =>
            (attempts' = attempts /\ repairs' = repairs)]_vars

\* The controller ended EXHAUSTED after two or more attempts and returned
\* False.
ExhaustedAndReturned ==
    /\ Exhausted
    /\ max_iterations >= 2
    /\ pc = "decide"
    /\ ~success

\* C17: when the response to the requirements prompt cannot be parsed,
\* generate_requirements returns the default requirements and the build
\* goes on under the project name "MyApp".
ParseFailureFallsBack ==
    parsed = "unparseable" =>
        /\ requirements = [keys |-> {"app_name", "features"},
                           app_name |-> "MyApp",
                           features |-> <<"task_management">>,
                           framework |-> ""]
        /\ project_name = "MyApp"
        /\ Invoked("generate_search_queries") =>
              /\ Len(search_queries) = 1
              /\ search_queries[1].feature = "task_management"

\* After a parse failure the build reached linting.
DefaultBuildReachedLint ==
    /\ parsed = "unparseable"
    /\ Invoked("perform_search")
    /\ Invoked("generate_code")
    /\ Invoked("lint_and_validate")

\* C19: test runs and repairs alternate, starting with a test run, and a
\* repair only follows a test run that failed.
IsRetryStage(name) == name \in {"run_tests", "fix_errors"}
RetryStages == SelectSeq(stages, IsRetryStage)

TestRepairAlternate ==
    /\ \A i \in 1..Len(RetryStages) :
          RetryStages[i] = IF i % 2 = 1 THEN "run_tests" ELSE "fix_errors"
    /\ Len(attempts) + Len(repairs) = Len(RetryStages)
    /\ \A j \in 1..Len(repairs) : attempts[j] = "fail"

\* Two repairs were made, each between two test runs.
TwoRepairsBetweenTests ==
    /\ Len(repairs) = 2
    /\ Len(attempts) = 3

\* C20: lint commands run in the order black, pylint, eslint, swiftlint; a
\* command that fails is the last one run and its exception is raised;
\* "Linting completed." is sent only after four successful commands.
IsLintEvent(e) ==
    e.kind = "run" /\ e.arg \in {"black", "pylint", "eslint", "swiftlint"}
LintCommandsRun == SelectSeq(trace, IsLintEvent)
LintCompletedSent ==
    \E i \in 1..Len(trace) :
        trace[i].kind = "sms" /\ trace[i].arg = "Linting completed."

LintInOrderFailFast ==
    /\ Len(LintCommandsRun) <= 4
    /\ \A i \in 1..Len(LintCommandsRun) :
          LintCommandsRun[i].arg = <<"black", "pylint", "eslint", "swiftlint">>[i]
    /\ Len(lint_results) = Len(LintCommandsRun)
    /\ \A i \in 1..Len(lint_results) :
          lint_results[i] # "ok" =>
              /\ i = Len(lint_results)
              /\ pc = "raised"
              /\ exc \in {"CalledProcessError", "FileNotFoundError"}
              /\ Last(stages) = "lint_and_validate"
    /\ LintCompletedSent =>
          /\ Len(lint_results) = 4
          /\ \A i \in 1..4 : lint_results[i] = "ok"

\* eslint failed after black and pylint succeeded; swiftlint was not run.
EslintFailed ==
    /\ lint_results = <<"ok", "ok", "fail">>
    /\ pc = "raised"

\* All four lint commands succeeded and the notification was sent.
LintCompletedNotified ==
    /\ LintCompletedSent
    /\ Invoked("run_tests")

----------------------------------------------------------------------------
\* Properties of the vector store

\* Every add_document_to_store call of every active build has returned.
AllAdded ==
    \A w \in active : wpc[w] = "idle" /\ resources[w] = <<>>

AddedBy(w) == {t \in added : t[1] = w}

\* The file holds a store with every text in ts.
Persisted(ts) ==
    /\ store_file.kind = "store"
    /\ ts \subseteq Range(store_file.texts)

\* C12: when two builds each add documents to the store, their steps in any
\* order, and every call has returned, the persisted index holds the
\* documents of both: no update is lost.
NoLostUpdate ==
    (/\ active = Builds
     /\ AllAdded
     /\ \A w \in Builds : AddedBy(w) # {})
        => Persisted(added)

\* get_vectorstore has just returned `vs` to build w.
Loaded(w) == wpc[w] \in {"add_texts", "similarity_search"}

\* A store that holds the initial entry and every text added so far.
UsableIndex(vs) ==
    /\ vs.kind = "store"
    /\ ({InitialText} \cup added) \subseteq Range(vs.texts)

\* C18: with one build using the store, its calls one after another from an
\* absent file, every get_vectorstore returns a usable index that holds the
\* initial entry and every document added so far.
SequentialAppendOnly ==
    \A w \in Builds :
        (active = {w} /\ Loaded(w)) => UsableIndex(wvs[w])

====
